---- MODULE Spec2Model ----
(***************************************************************************)
(* A model of the multi-level Bloom filter of src/src/bloom_filter.rs and  *)
(* of the way a caller (src/src/main.rs, the unit tests) drives it:        *)
(* construction, insert, query, and persistence as pretty-printed JSON.    *)
(*                                                                         *)
(* Rust values are modelled as follows.                                    *)
(*   usize hash values  : four 16-bit limbs, least significant first, so   *)
(*                        that wrapping_mul / wrapping_add wrap at 2^64.   *)
(*   &str               : the sequence of its bytes.                       *)
(*   Option<T>/Result   : <<>> for None, <<v>> for Some(v); a Result is a  *)
(*                        record with a tag.                               *)
(*   a file             : [exists, data], data a sequence of JSON tokens   *)
(*                        (punctuation, quoted keys, true/false, single    *)
(*                        decimal digits, white space).                    *)
(*   a panic            : the call does not return; pc becomes "panicked". *)
(***************************************************************************)
EXTENDS Naturals, Sequences, FiniteSets

VARIABLES bloom_filter, fs, ret, inserted, pc

vars == <<bloom_filter, fs, ret, inserted, pc>>

----------------------------------------------------------------------------
(* Bounds of the model. *)

\* new() is called with num_levels in 0..MaxLevels.
MaxLevels == 2
\* new() is called with array_size in 0..MaxArraySize.
MaxArraySize == 3
\* query() is called with num_levels_to_search in 0..MaxLevels+ExtraSearch.
ExtraSearch == 1

\* The items the caller inserts and queries: "test", and fourteen bytes
\* 'z', long enough for the 64-bit accumulator to wrap.
Items == { <<116, 101, 115, 116>>,
           <<122, 122, 122, 122, 122, 122, 122, 122, 122, 122, 122, 122, 122, 122>> }

\* The file path the caller saves to and loads from.
Paths == {"bloom.json"}

----------------------------------------------------------------------------
(* The pool of multipliers of BloomFilter::new. *)

multipliers == <<31, 37, 41, 43, 47, 53, 59, 61, 67, 71>>

----------------------------------------------------------------------------
(* usize arithmetic. *)

LimbBase == 65536

U64Zero == <<0, 0, 0, 0>>

\* hash.wrapping_mul(multiplier).wrapping_add(b) on a 64-bit usize.
WrappingMulAdd(h, multiplier, b) ==
    LET t0 == h[1] * multiplier + b
        t1 == h[2] * multiplier + (t0 \div LimbBase)
        t2 == h[3] * multiplier + (t1 \div LimbBase)
        t3 == h[4] * multiplier + (t2 \div LimbBase)
    IN  <<t0 % LimbBase, t1 % LimbBase, t2 % LimbBase, t3 % LimbBase>>

\* h % array_size, for array_size > 0.
ModUsize(h, array_size) ==
    LET r3 == h[4] % array_size
        r2 == (r3 * LimbBase + h[3]) % array_size
        r1 == (r2 * LimbBase + h[2]) % array_size
    IN  (r1 * LimbBase + h[1]) % array_size

RECURSIVE HashFold(_, _, _, _)
HashFold(multiplier, s, i, acc) ==
    IF i > Len(s) THEN acc
    ELSE HashFold(multiplier, s, i + 1, WrappingMulAdd(acc, multiplier, s[i]))

\* HashFunction::hash: fold over the bytes from accumulator 0.
HashOf(multiplier, s) == HashFold(multiplier, s, 1, U64Zero)

\* hash is a pure function: its values on the pool's multipliers and the
\* model's items are tabulated once.
PoolSet == {multipliers[i] : i \in 1..Len(multipliers)}

HashTable == [m \in PoolSet |-> [s \in Items |-> HashOf(m, s)]]

Hash(hf, s) ==
    IF hf.multiplier \in PoolSet /\ s \in Items THEN HashTable[hf.multiplier][s]
    ELSE HashOf(hf.multiplier, s)

\* HashFunction::new
HashFunctionNew(multiplier) == [multiplier |-> multiplier]

----------------------------------------------------------------------------
(* BloomLevel. *)

\* BloomLevel::new: vec![false; array_size]
BloomLevelNew(array_size) == [bit_array |-> [i \in 1..array_size |-> FALSE]]

\* Variants of SetBit: the flag cleared, the flag flipped.
ClearBit(bits, hash) == [bits EXCEPT ![hash + 1] = FALSE]
FlipBit(bits, hash) == [bits EXCEPT ![hash + 1] = ~bits[hash + 1]]

\* self.bit_array[hash] = true   (hash is a 0-based index within bounds)
SetBit(bits, hash) == [bits EXCEPT ![hash + 1] = TRUE]

\* BloomLevel::insert from the i-th hash function on.  The remainder by an
\* array_size of zero and an index past the end of bit_array both panic,
\* leaving the flags set so far.
RECURSIVE LevelInsertFrom(_, _, _, _, _)
LevelInsertFrom(level, item, hash_functions, array_size, i) ==
    IF i > Len(hash_functions) THEN [panicked |-> FALSE, level |-> level]
    ELSE IF array_size = 0 THEN [panicked |-> TRUE, level |-> level]
    ELSE LET hash == ModUsize(Hash(hash_functions[i], item), array_size) IN
         IF hash >= Len(level.bit_array) THEN [panicked |-> TRUE, level |-> level]
         ELSE LevelInsertFrom([bit_array |-> SetBit(level.bit_array, hash)],
                              item, hash_functions, array_size, i + 1)

LevelInsert(level, item, hash_functions, array_size) ==
    LevelInsertFrom(level, item, hash_functions, array_size, 1)

\* BloomLevel::query from the i-th hash function on: "true", "false" or
\* "panic".
RECURSIVE LevelQueryFrom(_, _, _, _, _)
LevelQueryFrom(level, item, hash_functions, array_size, i) ==
    IF i > Len(hash_functions) THEN "true"
    ELSE IF array_size = 0 THEN "panic"
    ELSE LET hash == ModUsize(Hash(hash_functions[i], item), array_size) IN
         IF hash >= Len(level.bit_array) THEN "panic"
         ELSE IF ~level.bit_array[hash + 1] THEN "false"
         ELSE LevelQueryFrom(level, item, hash_functions, array_size, i + 1)

\* A variant of LevelQuery that answers false for an array_size of zero.
LevelQueryGuarded(level, item, hash_functions, array_size) ==
    IF array_size = 0 THEN "false"
    ELSE LevelQueryFrom(level, item, hash_functions, array_size, 1)

LevelQuery(level, item, hash_functions, array_size) ==
    LevelQueryFrom(level, item, hash_functions, array_size, 1)

----------------------------------------------------------------------------
(* BloomFilter: new, insert, query. *)

\* A variant of ExceedsPool: >= for >.
ReachesPool(num_hash_functions) == num_hash_functions >= Len(multipliers)

\* The check of the requested number of hash functions against the pool.
ExceedsPool(num_hash_functions) == num_hash_functions > Len(multipliers)

\* multipliers[..num_hash_functions] mapped to HashFunction::new
SelectHashFunctions(num_hash_functions) ==
    [i \in 1..num_hash_functions |-> HashFunctionNew(multipliers[i])]

\* BloomFilter::new
BloomFilterNew(num_levels, array_size, num_hash_functions) ==
    IF ExceedsPool(num_hash_functions)
    THEN [tag |-> "InvalidHashFunctions", val |-> <<>>,
          requested |-> num_hash_functions, available |-> Len(multipliers)]
    ELSE [tag |-> "Ok",
          val |-> << [levels |-> [i \in 1..num_levels |-> BloomLevelNew(array_size)],
                      hash_functions |-> SelectHashFunctions(num_hash_functions),
                      array_size |-> array_size] >>,
          requested |-> 0, available |-> 0]

\* A variant of LevelsToInsert: the first level only.
FirstLevelOnly(bf) == IF Len(bf.levels) = 0 THEN 0 ELSE 1

\* The levels BloomFilter::insert visits: all of them, in order.
LevelsToInsert(bf) == Len(bf.levels)

\* BloomFilter::insert from the i-th level on; a panic in a level ends the
\* call with the levels as they are at that point.
RECURSIVE FilterInsertFrom(_, _, _)
FilterInsertFrom(bf, item, i) ==
    IF i > LevelsToInsert(bf) THEN [panicked |-> FALSE, bf |-> bf]
    ELSE LET r == LevelInsert(bf.levels[i], item, bf.hash_functions, bf.array_size)
             nbf == [bf EXCEPT !.levels[i] = r.level]
         IN  IF r.panicked THEN [panicked |-> TRUE, bf |-> nbf]
             ELSE FilterInsertFrom(nbf, item, i + 1)

FilterInsert(bf, item) == FilterInsertFrom(bf, item, 1)

\* A variant of LevelsToSearch: one level fewer.
LevelsToSearchLess(bf, num_levels_to_search) ==
    LET m == IF num_levels_to_search < Len(bf.levels) THEN num_levels_to_search
             ELSE Len(bf.levels)
    IN  IF m = 0 THEN 0 ELSE m - 1

\* std::cmp::min(num_levels_to_search, self.levels.len())
LevelsToSearch(bf, num_levels_to_search) ==
    IF num_levels_to_search < Len(bf.levels) THEN num_levels_to_search
    ELSE Len(bf.levels)

RECURSIVE FilterQueryFrom(_, _, _, _)
FilterQueryFrom(bf, item, levels_to_search, i) ==
    IF i > levels_to_search THEN "false"
    ELSE LET r == LevelQuery(bf.levels[i], item, bf.hash_functions, bf.array_size) IN
         IF r = "false" THEN FilterQueryFrom(bf, item, levels_to_search, i + 1)
         ELSE r

\* A variant of FilterQuery: the level at num_levels_to_search only.
FilterQueryNth(bf, item, num_levels_to_search) ==
    IF num_levels_to_search = 0 \/ num_levels_to_search > Len(bf.levels) THEN "false"
    ELSE LevelQuery(bf.levels[num_levels_to_search], item, bf.hash_functions,
                    bf.array_size)

\* BloomFilter::query: "true", "false" or "panic".
FilterQuery(bf, item, num_levels_to_search) ==
    FilterQueryFrom(bf, item, LevelsToSearch(bf, num_levels_to_search), 1)

----------------------------------------------------------------------------
(* Serialization: serde_json::to_writer_pretty of the derived Serialize.   *)
(* A struct is written as an object with its fields in declaration order,  *)
(* a Vec as an array, a usize in decimal, a bool as true/false; the pretty *)
(* formatter breaks the line before every array element and object key     *)
(* and before the closing bracket of a non-empty array or object, and      *)
(* writes a space after every colon.                                       *)

NL == "\n"
SP == " "

Digits == <<"0", "1", "2", "3", "4", "5", "6", "7", "8", "9">>

\* A variant of EncodeUsize: least significant digit first.
RECURSIVE EncodeUsizeReversed(_)
EncodeUsizeReversed(n) ==
    IF n < 10 THEN <<Digits[n + 1]>>
    ELSE <<Digits[(n % 10) + 1]>> \o EncodeUsizeReversed(n \div 10)

\* The decimal digits of a usize, most significant first.
RECURSIVE EncodeUsize(_)
EncodeUsize(n) ==
    IF n < 10 THEN <<Digits[n + 1]>>
    ELSE EncodeUsize(n \div 10) \o <<Digits[(n % 10) + 1]>>

EncodeBool(b) == IF b THEN <<"true">> ELSE <<"false">>

\* The encoded elements (or key-value members) separated by commas, each on
\* a line of its own.
RECURSIVE JoinLines(_, _)
JoinLines(parts, i) ==
    IF i > Len(parts) THEN <<>>
    ELSE (IF i = 1 THEN <<NL>> ELSE <<",", NL>>) \o parts[i] \o JoinLines(parts, i + 1)

EncodeArray(parts) ==
    IF Len(parts) = 0 THEN <<"[", "]">>
    ELSE <<"[">> \o JoinLines(parts, 1) \o <<NL, "]">>

EncodeMember(key, value) == <<key, ":", SP>> \o value

EncodeObject(members) ==
    IF Len(members) = 0 THEN <<"{", "}">>
    ELSE <<"{">> \o JoinLines(members, 1) \o <<NL, "}">>

\* #[derive(Serialize)] struct HashFunction { multiplier }
EncodeHashFunction(hf) ==
    EncodeObject(<< EncodeMember("\"multiplier\"", EncodeUsize(hf.multiplier)) >>)

\* #[derive(Serialize)] struct BloomLevel { bit_array }
EncodeLevel(level) ==
    EncodeObject(<< EncodeMember("\"bit_array\"",
        EncodeArray([i \in 1..Len(level.bit_array) |-> EncodeBool(level.bit_array[i])])) >>)

\* #[derive(Serialize)] struct BloomFilter { levels, hash_functions, array_size }
EncodeFilter(bf) ==
    EncodeObject(<<
        EncodeMember("\"levels\"",
            EncodeArray([i \in 1..Len(bf.levels) |-> EncodeLevel(bf.levels[i])])),
        EncodeMember("\"hash_functions\"",
            EncodeArray([i \in 1..Len(bf.hash_functions) |->
                            EncodeHashFunction(bf.hash_functions[i])])),
        EncodeMember("\"array_size\"", EncodeUsize(bf.array_size)) >>)

----------------------------------------------------------------------------
(* Deserialization: serde_json::from_reader of the derived Deserialize.    *)
(* The text is parsed as JSON (objects, arrays, booleans, unsigned         *)
(* numbers) and each struct is read from an object: its fields in any      *)
(* order, unknown fields ignored, a missing or duplicated field, a value   *)
(* of the wrong type, a syntax error, an early end of the text or text     *)
(* after the value are errors.                                             *)

IsWs(t) == t \in {" ", "\n", "\t", "\r"}

IsDigit(t) == \E d \in 1..10 : Digits[d] = t

DigitVal(t) == (CHOOSE d \in 1..10 : Digits[d] = t) - 1

IsKey(t) == t \in {"\"levels\"", "\"hash_functions\"", "\"array_size\"",
                   "\"bit_array\"", "\"multiplier\"", "\"version\""}

JBool(b) == [k |-> "bool", b |-> b]
JNum(n) == [k |-> "num", n |-> n]
JArr(items) == [k |-> "arr", items |-> items]
JObj(keys, items) == [k |-> "obj", keys |-> keys, items |-> items]

ParseFail == [ok |-> FALSE, v |-> JBool(FALSE), next |-> 0]
ParseOk(v, next) == [ok |-> TRUE, v |-> v, next |-> next]

RECURSIVE SkipWs(_, _)
SkipWs(toks, i) ==
    IF i <= Len(toks) /\ IsWs(toks[i]) THEN SkipWs(toks, i + 1) ELSE i

RECURSIVE ParseDigits(_, _, _)
ParseDigits(toks, i, acc) ==
    IF i <= Len(toks) /\ IsDigit(toks[i])
    THEN ParseDigits(toks, i + 1, acc * 10 + DigitVal(toks[i]))
    ELSE ParseOk(JNum(acc), i)

\* A number: a single 0, or a non-zero digit followed by digits.
ParseNumber(toks, i) ==
    IF toks[i] = "0"
    THEN IF i + 1 <= Len(toks) /\ IsDigit(toks[i + 1]) THEN ParseFail
         ELSE ParseOk(JNum(0), i + 1)
    ELSE ParseDigits(toks, i, 0)

RECURSIVE ParseValue(_, _)
RECURSIVE ParseElements(_, _, _)
RECURSIVE ParseMembers(_, _, _, _)

ParseValue(toks, i0) ==
    LET i == SkipWs(toks, i0) IN
    IF i > Len(toks) THEN ParseFail
    ELSE IF toks[i] = "true" THEN ParseOk(JBool(TRUE), i + 1)
    ELSE IF toks[i] = "false" THEN ParseOk(JBool(FALSE), i + 1)
    ELSE IF IsDigit(toks[i]) THEN ParseNumber(toks, i)
    ELSE IF toks[i] = "["
         THEN LET j == SkipWs(toks, i + 1) IN
              IF j <= Len(toks) /\ toks[j] = "]" THEN ParseOk(JArr(<<>>), j + 1)
              ELSE ParseElements(toks, i + 1, <<>>)
    ELSE IF toks[i] = "{"
         THEN LET j == SkipWs(toks, i + 1) IN
              IF j <= Len(toks) /\ toks[j] = "}" THEN ParseOk(JObj(<<>>, <<>>), j + 1)
              ELSE ParseMembers(toks, i + 1, <<>>, <<>>)
    ELSE ParseFail

ParseElements(toks, i, acc) ==
    LET r == ParseValue(toks, i) IN
    IF ~r.ok THEN ParseFail
    ELSE LET j == SkipWs(toks, r.next) IN
         IF j > Len(toks) THEN ParseFail
         ELSE IF toks[j] = "," THEN ParseElements(toks, j + 1, Append(acc, r.v))
         ELSE IF toks[j] = "]" THEN ParseOk(JArr(Append(acc, r.v)), j + 1)
         ELSE ParseFail

ParseMembers(toks, i, keys, items) ==
    LET j == SkipWs(toks, i) IN
    IF j > Len(toks) \/ ~IsKey(toks[j]) THEN ParseFail
    ELSE LET c == SkipWs(toks, j + 1) IN
         IF c > Len(toks) \/ toks[c] # ":" THEN ParseFail
         ELSE LET r == ParseValue(toks, c + 1) IN
              IF ~r.ok THEN ParseFail
              ELSE LET e == SkipWs(toks, r.next) IN
                   IF e > Len(toks) THEN ParseFail
                   ELSE IF toks[e] = ","
                        THEN ParseMembers(toks, e + 1, Append(keys, toks[j]),
                                          Append(items, r.v))
                   ELSE IF toks[e] = "}"
                        THEN ParseOk(JObj(Append(keys, toks[j]), Append(items, r.v)),
                                     e + 1)
                   ELSE ParseFail

\* The whole text is one JSON value, followed by white space only.
ParseJson(toks) ==
    LET r == ParseValue(toks, 1) IN
    IF r.ok /\ SkipWs(toks, r.next) > Len(toks) THEN r ELSE ParseFail

DecodeErr == [ok |-> FALSE, val |-> <<>>]
DecodeOk(v) == [ok |-> TRUE, val |-> <<v>>]

\* The positions of a field in an object.
FieldAt(v, key) == {i \in 1..Len(v.keys) : v.keys[i] = key}

\* An object holding the field exactly once.
HasField(v, key) == v.k = "obj" /\ Cardinality(FieldAt(v, key)) = 1

Field(v, key) == v.items[CHOOSE i \in FieldAt(v, key) : TRUE]

DecodeUsize(v) == IF v.k = "num" THEN DecodeOk(v.n) ELSE DecodeErr

\* Vec<bool>
DecodeBoolVec(v) ==
    IF v.k = "arr" /\ \A i \in 1..Len(v.items) : v.items[i].k = "bool"
    THEN DecodeOk([i \in 1..Len(v.items) |-> v.items[i].b])
    ELSE DecodeErr

\* #[derive(Deserialize)] struct HashFunction { multiplier }
DecodeHashFunction(v) ==
    IF ~HasField(v, "\"multiplier\"") THEN DecodeErr
    ELSE LET m == DecodeUsize(Field(v, "\"multiplier\"")) IN
         IF m.ok THEN DecodeOk([multiplier |-> m.val[1]]) ELSE DecodeErr

\* #[derive(Deserialize)] struct BloomLevel { bit_array }
DecodeLevel(v) ==
    IF ~HasField(v, "\"bit_array\"") THEN DecodeErr
    ELSE LET b == DecodeBoolVec(Field(v, "\"bit_array\"")) IN
         IF b.ok THEN DecodeOk([bit_array |-> b.val[1]]) ELSE DecodeErr

\* Vec<BloomLevel>
DecodeLevels(v) ==
    IF v.k = "arr" /\ \A i \in 1..Len(v.items) : DecodeLevel(v.items[i]).ok
    THEN DecodeOk([i \in 1..Len(v.items) |-> DecodeLevel(v.items[i]).val[1]])
    ELSE DecodeErr

\* Vec<HashFunction>
DecodeHashFunctions(v) ==
    IF v.k = "arr" /\ \A i \in 1..Len(v.items) : DecodeHashFunction(v.items[i]).ok
    THEN DecodeOk([i \in 1..Len(v.items) |-> DecodeHashFunction(v.items[i]).val[1]])
    ELSE DecodeErr

\* #[derive(Deserialize)] struct BloomFilter { levels, hash_functions, array_size }:
\* the three fields are adopted as decoded, with no check between them.
DecodeFilter(v) ==
    IF ~(HasField(v, "\"levels\"") /\ HasField(v, "\"hash_functions\"")
         /\ HasField(v, "\"array_size\""))
    THEN DecodeErr
    ELSE LET l == DecodeLevels(Field(v, "\"levels\""))
             h == DecodeHashFunctions(Field(v, "\"hash_functions\""))
             a == DecodeUsize(Field(v, "\"array_size\""))
         IN  IF l.ok /\ h.ok /\ a.ok
             THEN DecodeOk([levels |-> l.val[1], hash_functions |-> h.val[1],
                            array_size |-> a.val[1]])
             ELSE DecodeErr

\* serde_json::from_reader::<BloomFilter>
FromReader(toks) ==
    LET r == ParseJson(toks) IN
    IF r.ok THEN DecodeFilter(r.v) ELSE DecodeErr

----------------------------------------------------------------------------
(* Persistence: save_to_file and load_from_file against the file system.   *)

NoFile == [exists |-> FALSE, data |-> <<>>]
FileOf(data) == [exists |-> TRUE, data |-> data]

\* What the storage does during a call: nothing wrong; File::create or
\* File::open fails; a write fails while to_writer_pretty runs; a write
\* fails while the BufWriter is flushed as it is dropped.
SaveFaults == {"none", "create_fails", "write_fails", "flush_fails"}
LoadFaults == {"none", "open_fails"}

\* The prefix of the text that a failed write leaves in the file.
PartialText(text) == SubSeq(text, 1, Len(text) \div 2)

\* BloomFilter::save_to_file of the filter whose encoding is `text`:
\* [result, file], file the content of the path after the call.
\* File::create truncates the file.  A failing write reaches the caller as
\* a serde_json error; the function never flushes the BufWriter, and an
\* error met while it is flushed on drop is discarded.
SaveToFile(text, old, fault) ==
    IF fault = "create_fails" THEN [result |-> "IoError", file |-> old]
    ELSE IF fault = "write_fails"
         THEN [result |-> "SerdeError", file |-> FileOf(PartialText(text))]
    ELSE IF fault = "flush_fails"
         THEN [result |-> "Ok", file |-> FileOf(PartialText(text))]
    ELSE [result |-> "Ok", file |-> FileOf(text)]

\* BloomFilter::load_from_file: a Result<BloomFilter, BloomFilterError>.
LoadFromFile(file, fault) ==
    IF ~file.exists \/ fault = "open_fails" THEN [tag |-> "IoError", val |-> <<>>]
    ELSE LET d == FromReader(file.data) IN
         IF d.ok THEN [tag |-> "Ok", val |-> d.val]
         ELSE [tag |-> "SerdeError", val |-> <<>>]

\* A variant of AdoptLoaded: on an error the held filter loses its levels.
AdoptPartly(held, r) ==
    IF r.tag = "Ok" THEN r.val ELSE << [held[1] EXCEPT !.levels = <<>>] >>

\* main.rs, the load branch: the held filter is replaced on Ok only.
AdoptLoaded(held, r) == IF r.tag = "Ok" THEN r.val ELSE held

\* Files that another program wrote, as token sequences:
\*  - array_size 3 with a bit_array of two flags;
\*  - the fields in another order, an unknown field, two differing levels;
\*  - a text that ends early;
\*  - an object without array_size.
ForeignFiles == {
    <<"{", "\"levels\"", ":", "[", "{", "\"bit_array\"", ":", "[", "false", ",", "false",
      "]", "}", "]", ",", "\"hash_functions\"", ":", "[", "{", "\"multiplier\"", ":",
      "3", "7", "}", "]", ",", "\"array_size\"", ":", "3", "}">>,
    <<"{", "\"version\"", ":", "1", ",", "\"array_size\"", ":", "2", ",",
      "\"hash_functions\"", ":", "[", "{", "\"multiplier\"", ":", "3", "7", "}", "]", ",",
      "\"levels\"", ":", "[", "{", "\"bit_array\"", ":", "[", "false", ",", "false", "]",
      "}", ",", "{", "\"bit_array\"", ":", "[", "true", ",", "true", "]", "}", "]", "}",
      "\n">>,
    <<"{", "\n", "\"levels\"", ":", " ", "[">>,
    <<"{", "\"levels\"", ":", "[", "]", ",", "\"hash_functions\"", ":", "[", "]", "}">> }

----------------------------------------------------------------------------
(* The state machine.                                                      *)
(*   bloom_filter : the filter the caller holds (main.rs `bloom_filter`,   *)
(*                  the tests' `bf`), <<>> before construction.            *)
(*   fs           : the content of every path.                             *)
(*   ret          : the last call, its arguments and what it returned.     *)
(*   inserted     : the items passed to insert calls that returned, on the *)
(*                  filter held now.                                       *)
(*   pc           : "start", "ready", "failed" (new returned an error and  *)
(*                  the caller gave up) or "panicked".                     *)

\* The arguments of the calls.  The public functions take any usize;
\* main.rs itself passes 3 or 4 hash functions, positive sizes and a depth
\* between 1 and num_levels, the tests pass (1, 100, 3) and depth 1.
NumLevelsChoices == 0..MaxLevels
ArraySizeChoices == 0..MaxArraySize
NumHashChoices == {0, 2, Len(multipliers), Len(multipliers) + 1}
SearchChoices == 0..(MaxLevels + ExtraSearch)

NoCall == [op |-> "none", result |-> "none", item |-> <<>>, n |-> 0, path |-> "",
           fault |-> "none", num_levels |-> 0, array_size |-> 0,
           num_hash_functions |-> 0, requested |-> 0, available |-> 0]

\* The caller starts without a filter; a path holds no file, or a file that
\* another program left there.
Init ==
    /\ bloom_filter = <<>>
    /\ fs \in [Paths -> {NoFile} \cup {FileOf(data) : data \in ForeignFiles}]
    /\ ret = NoCall
    /\ inserted = {}
    /\ pc = "start"

New(num_levels, array_size, num_hash_functions) ==
    /\ pc = "start"
    /\ LET r == BloomFilterNew(num_levels, array_size, num_hash_functions) IN
        /\ bloom_filter' = r.val
        /\ pc' = IF r.tag = "Ok" THEN "ready" ELSE "failed"
        /\ ret' = [NoCall EXCEPT !.op = "new", !.result = r.tag,
                                 !.num_levels = num_levels,
                                 !.array_size = array_size,
                                 !.num_hash_functions = num_hash_functions,
                                 !.requested = r.requested,
                                 !.available = r.available]
    /\ inserted' = {}
    /\ UNCHANGED fs

Insert(item) ==
    /\ pc = "ready"
    /\ LET r == FilterInsert(bloom_filter[1], item) IN
        /\ bloom_filter' = <<r.bf>>
        /\ pc' = IF r.panicked THEN "panicked" ELSE "ready"
        /\ ret' = [NoCall EXCEPT !.op = "insert", !.item = item,
                                 !.result = IF r.panicked THEN "panic" ELSE "Ok"]
        /\ inserted' = IF r.panicked THEN inserted ELSE inserted \cup {item}
    /\ UNCHANGED fs

Query(item, num_levels_to_search) ==
    /\ pc = "ready"
    /\ LET r == FilterQuery(bloom_filter[1], item, num_levels_to_search) IN
        /\ pc' = IF r = "panic" THEN "panicked" ELSE "ready"
        /\ ret' = [NoCall EXCEPT !.op = "query", !.item = item,
                                 !.n = num_levels_to_search, !.result = r]
    /\ UNCHANGED <<bloom_filter, fs, inserted>>

Save(path, fault, text) ==
    /\ pc = "ready"
    /\ LET r == SaveToFile(text, fs[path], fault) IN
        /\ fs' = [fs EXCEPT ![path] = r.file]
        /\ ret' = [NoCall EXCEPT !.op = "save", !.path = path, !.fault = fault,
                                 !.result = r.result]
    /\ UNCHANGED <<bloom_filter, inserted, pc>>

Load(path, fault) ==
    /\ pc = "ready"
    /\ LET r == LoadFromFile(fs[path], fault) IN
        /\ bloom_filter' = AdoptLoaded(bloom_filter, r)
        /\ inserted' = IF r.tag = "Ok" THEN {} ELSE inserted
        /\ ret' = [NoCall EXCEPT !.op = "load", !.path = path, !.fault = fault,
                                 !.result = r.tag]
    /\ UNCHANGED <<fs, pc>>

DoNew ==
    \E nl \in NumLevelsChoices, as \in ArraySizeChoices, nh \in NumHashChoices :
        New(nl, as, nh)
DoInsert == \E item \in Items : Insert(item)
DoQuery == \E item \in Items, n \in SearchChoices : Query(item, n)
DoSave ==
    /\ pc = "ready"
    /\ LET text == EncodeFilter(bloom_filter[1]) IN
        \E path \in Paths, fault \in SaveFaults : Save(path, fault, text)
DoLoad == \E path \in Paths, fault \in LoadFaults : Load(path, fault)

\* A filter built by new and driven by insert, query and save only.
NextCore == DoNew \/ DoInsert \/ DoQuery \/ DoSave
SpecCore == Init /\ [][NextCore]_vars

\* The same with loads, of the files it saved and of the files it found.
Next == DoNew \/ DoInsert \/ DoQuery \/ DoSave \/ DoLoad
Spec == Init /\ [][Next]_vars

----------------------------------------------------------------------------
(* The claims. *)

HasFilter == bloom_filter # <<>>
Held == bloom_filter[1]

SomeFlagSet(bf) ==
    \E i \in 1..Len(bf.levels) :
        \E j \in 1..Len(bf.levels[i].bit_array) : bf.levels[i].bit_array[j]

\* Every level's bit_array has array_size flags, and array_size is positive.
WellSized(bf) ==
    /\ bf.array_size >= 1
    /\ \A i \in 1..Len(bf.levels) : Len(bf.levels[i].bit_array) = bf.array_size

\* C1: no false negatives.  On a filter built by new with at least one level
\* and a positive array_size, after any insert calls interleaved with any
\* queries (and saves), every inserted item is answered true by query at any
\* depth n >= 1.
C1_NoFalseNegatives ==
    (HasFilter /\ Len(Held.levels) >= 1 /\ Held.array_size >= 1)
        => \A x \in inserted : \A n \in SearchChoices \ {0} :
              FilterQuery(Held, x, n) = "true"

\* C1's case: two items inserted, at least two flags and a hash function,
\* and a query of an inserted item has just answered true.
C1_Witness ==
    /\ HasFilter /\ Len(Held.levels) >= 1 /\ Held.array_size >= 2
    /\ Len(Held.hash_functions) >= 1
    /\ Cardinality(inserted) >= 2
    /\ ret.op = "query" /\ ret.n >= 1 /\ ret.item \in inserted /\ ret.result = "true"

\* C2: save/load round trip.  Right after a save that met no storage fault,
\* a load of the same path succeeds and yields a filter with the same
\* array_size, the same multipliers in the same order and the same bit
\* arrays, hence the same answer to every query.
C2_RoundTrip ==
    (ret.op = "save" /\ ret.fault = "none")
        => /\ ret.result = "Ok"
           /\ LET r == LoadFromFile(fs[ret.path], "none") IN
                /\ r.tag = "Ok"
                /\ r.val[1].array_size = Held.array_size
                /\ r.val[1].hash_functions = Held.hash_functions
                /\ r.val[1].levels = Held.levels
                /\ AdoptLoaded(bloom_filter, r) = bloom_filter
                /\ \A x \in Items : \A n \in SearchChoices :
                      FilterQuery(r.val[1], x, n) = FilterQuery(Held, x, n)

\* C2's case: a populated filter with several hash functions has just been
\* saved.
C2_Witness ==
    /\ ret.op = "save" /\ ret.fault = "none" /\ ret.result = "Ok"
    /\ Len(Held.hash_functions) >= 2 /\ Len(Held.levels) >= 2
    /\ SomeFlagSet(Held) /\ inserted # {}

\* C3: new(num_levels, array_size, k) returns InvalidHashFunctions with
\* requested = k and available = 10 exactly when k > 10, and no filter; for
\* k <= 10 it returns a filter whose hash functions are the first k of
\* 31, 37, 41, 43, 47, 53, 59, 61, 67, 71 in this order, with num_levels
\* levels of array_size flags, all false.
C3_New ==
    ret.op = "new" =>
        LET k == ret.num_hash_functions
            pool == <<31, 37, 41, 43, 47, 53, 59, 61, 67, 71>>
        IN  /\ ret.result \in {"Ok", "InvalidHashFunctions"}
            /\ (ret.result = "InvalidHashFunctions") <=> (k > 10)
            /\ ret.result = "InvalidHashFunctions" =>
                  /\ ~HasFilter
                  /\ ret.requested = k
                  /\ ret.available = 10
            /\ ret.result = "Ok" =>
                  /\ HasFilter
                  /\ Held.hash_functions = [i \in 1..k |-> [multiplier |-> pool[i]]]
                  /\ Held.array_size = ret.array_size
                  /\ Len(Held.levels) = ret.num_levels
                  /\ \A i \in 1..Len(Held.levels) :
                        Held.levels[i].bit_array = [j \in 1..ret.array_size |-> FALSE]

\* C3's case: new has just refused eleven hash functions.
C3_Witness ==
    /\ ret.op = "new" /\ ret.result = "InvalidHashFunctions"
    /\ ret.num_hash_functions = 11 /\ pc = "failed"

\* C4: query is monotonic in num_levels_to_search.  In every state and for
\* every item, a true answer at depth n is a true answer at every depth
\* n' > n.
C4_Monotonic ==
    HasFilter =>
        \A x \in Items : \A n \in SearchChoices :
            FilterQuery(Held, x, n) = "true"
                => \A n2 \in SearchChoices :
                      n2 > n => FilterQuery(Held, x, n2) = "true"

\* C4's case: an item that the first level does not hold and the first two
\* levels do, and a query that has just answered true.
C4_Witness ==
    /\ HasFilter /\ Len(Held.levels) >= 2
    /\ ret.op = "query" /\ ret.result = "true" /\ ret.n = 2
    /\ FilterQuery(Held, ret.item, 1) = "false"
    /\ FilterQuery(Held, ret.item, 3) = "true"

\* C5: insert is idempotent.  In every state and for every item x, a second
\* insert(x) right after an insert(x) that returned leaves every level's
\* bit array as the first left it.
C5_Idempotent ==
    /\ (ret.op = "insert" /\ ret.result = "Ok")
          => FilterInsert(Held, ret.item) = [panicked |-> FALSE, bf |-> Held]
    /\ (HasFilter /\ pc = "ready") =>
          \A x \in Items :
              LET once == FilterInsert(Held, x) IN
              ~once.panicked =>
                  FilterInsert(once.bf, x) = [panicked |-> FALSE, bf |-> once.bf]

\* C5's case: an insert has just returned and has set a flag.
C5_Witness ==
    /\ ret.op = "insert" /\ ret.result = "Ok"
    /\ Len(Held.levels) >= 2 /\ Len(Held.hash_functions) >= 2
    /\ SomeFlagSet(Held)

\* The answer C6 expects of query(x, n): true iff one of the first
\* min(n, number of levels) levels has the flag at hash_i(x) mod array_size
\* set for every hash function i.
C6_Expected(bf, x, n) ==
    LET depth == IF n < Len(bf.levels) THEN n ELSE Len(bf.levels) IN
    IF \E i \in 1..depth : \A h \in 1..Len(bf.hash_functions) :
          bf.levels[i].bit_array[
              ModUsize(Hash(bf.hash_functions[h], x), bf.array_size) + 1]
    THEN "true" ELSE "false"

\* C6: query(x, n) searches exactly the first min(n, levels.length) levels:
\* it answers true iff one of them has every indexed flag set, and false
\* otherwise; n beyond the number of levels answers as n equal to it, with
\* no error; n = 0 answers false.
C6_QuerySemantics ==
    HasFilter =>
        /\ WellSized(Held) =>
              /\ \A x \in Items : \A n \in SearchChoices :
                    FilterQuery(Held, x, n) = C6_Expected(Held, x, n)
              /\ ret.op = "query" => ret.result = C6_Expected(Held, ret.item, ret.n)
        /\ \A x \in Items : \A n \in SearchChoices :
              /\ n > Len(Held.levels) =>
                    FilterQuery(Held, x, n) = FilterQuery(Held, x, Len(Held.levels))
              /\ n = 0 => FilterQuery(Held, x, n) = "false"

\* C6's case: a query deeper than the filter has levels has just answered
\* true, and another item is answered false.
C6_Witness ==
    /\ HasFilter /\ WellSized(Held) /\ Len(Held.levels) >= 1
    /\ ret.op = "query" /\ ret.n > Len(Held.levels) /\ ret.result = "true"
    /\ \E x \in Items : FilterQuery(Held, x, ret.n) = "false"

\* C7: a save or a load that returns an error leaves the held filter as it
\* was, and returns the error as a value (the caller goes on).
C7_ErrorLeavesState ==
    [][(ret'.op \in {"save", "load"} /\ ret'.result # "Ok")
          => /\ bloom_filter' = bloom_filter
             /\ ret'.result \in {"IoError", "SerdeError"}
             /\ pc' = pc]_vars

\* C7's case: a load has just failed to decode its file while the caller
\* holds a populated filter.
C7_Witness ==
    /\ ret.op = "load" /\ ret.result = "SerdeError"
    /\ HasFilter /\ SomeFlagSet(Held) /\ inserted # {}

\* C8: load refuses a snapshot whose array_size differs from the length of
\* a level's bit_array, so that every filter held has array_size flags in
\* every level.
C8_LoadValidates ==
    HasFilter =>
        \A i \in 1..Len(Held.levels) : Len(Held.levels[i].bit_array) = Held.array_size

\* C9 as claimed: new accepts zeros, and on a filter with array_size = 0
\* every insert and every query ends in a panic.
C9_AlwaysFatal ==
    /\ (ret.op = "new" /\ ret.num_hash_functions <= 10) => ret.result = "Ok"
    /\ (HasFilter /\ Held.array_size = 0 /\ ret.op \in {"insert", "query"})
          => ret.result = "panic"

\* C9 as amended: new accepts zeros; on a filter built with array_size = 0
\* insert panics exactly when there is a level and a hash function, and
\* query(x, n) exactly when moreover n >= 1; otherwise insert returns and
\* leaves the filter as built, and query answers false when it searches no
\* level and true when it searches a level with no hash function.
C9_FatalWhenHashed ==
    /\ (ret.op = "new" /\ ret.num_hash_functions <= 10) => (ret.result = "Ok" /\ HasFilter)
    /\ (HasFilter /\ Held.array_size = 0) =>
          LET hashed == Len(Held.levels) >= 1 /\ Len(Held.hash_functions) >= 1 IN
          /\ ret.op = "insert" =>
                /\ (ret.result = "panic") <=> hashed
                /\ ~hashed => ret.result = "Ok"
                /\ \A i \in 1..Len(Held.levels) : Held.levels[i].bit_array = <<>>
          /\ ret.op = "query" =>
                /\ (ret.result = "panic") <=> (hashed /\ ret.n >= 1)
                /\ ~(hashed /\ ret.n >= 1) =>
                      ret.result = IF Len(Held.levels) >= 1 /\ ret.n >= 1
                                   THEN "true" ELSE "false"

\* C9's case: on a filter with array_size = 0, a level and a hash function,
\* a query has just panicked.
C9_Witness ==
    /\ HasFilter /\ Held.array_size = 0
    /\ Len(Held.levels) >= 1 /\ Len(Held.hash_functions) >= 1
    /\ ret.op = "query" /\ ret.result = "panic" /\ pc = "panicked"

\* C10: on a filter built by new and driven by insert, query and save, all
\* levels hold the same bit array, and with at least one level the depth of
\* a query does not change its answer: query(x, n) = query(x, 1), n >= 1.
C10_LevelsIdentical ==
    HasFilter =>
        /\ \A i \in 1..Len(Held.levels) : \A j \in 1..Len(Held.levels) :
              Held.levels[i].bit_array = Held.levels[j].bit_array
        /\ Len(Held.levels) >= 1 =>
              \A x \in Items : \A n \in SearchChoices \ {0} :
                  FilterQuery(Held, x, n) = FilterQuery(Held, x, 1)

\* C10's case: several levels, a flag set, and a query of depth two or more
\* has just returned.
C10_Witness ==
    /\ HasFilter /\ Len(Held.levels) >= 2 /\ SomeFlagSet(Held)
    /\ ret.op = "query" /\ ret.n >= 2 /\ ret.result \in {"true", "false"}

====
